---- MODULE Spec2Model ----
(***************************************************************************)
(* A model of main.py: the transcript sanitizer (clean_transcript), the    *)
(* Drive download + speech-to-text pipeline behind POST /transcribe and    *)
(* the prompt assembly + language-model pipeline behind POST               *)
(* /generate-report.                                                       *)
(*                                                                         *)
(* Text is a sequence of one-character strings.  Three characters of the  *)
(* punctuation class are written as the atoms "EN_DASH", "EM_DASH" and     *)
(* "BACKTICK".                                                             *)
(***************************************************************************)
EXTENDS Integers, Sequences, FiniteSets, TLC

VARIABLES
    raw,      \* sanitizer run: the input text
    once,     \* sanitizer run: clean_transcript(raw)
    twice,    \* sanitizer run: clean_transcript(clean_transcript(raw))
    cstage,   \* sanitizer run: "input", "once" or "twice"
    pc,       \* /transcribe: each request's position in transcribe_endpoint
    body,     \* /transcribe: each request's JSON body
    proc,     \* /transcribe: the worker process serving each request (0: none yet)
    loop,     \* per worker process: the request its event loop is running (0: none)
    local,    \* /transcribe: each request's local variables
    log,      \* /transcribe: the calls each request has made, in order
    resp,     \* /transcribe: each request's HTTP response
    fs,       \* the files of tempfile.gettempdir(), by path
    rpc,      \* /generate-report: each request's position
    rbody,    \* /generate-report: each request's JSON body
    llm,      \* /generate-report: the user messages sent to the language model
    rresp     \* /generate-report: each request's HTTP response

cvars == <<raw, once, twice, cstage>>
tvars == <<pc, body, proc, loop, local, log, resp, fs>>
rvars == <<rpc, rbody, llm, rresp>>
vars == <<cvars, tvars, rvars>>

----------------------------------------------------------------------------
(* Character classes of the regular expressions of clean_transcript.       *)

Digit == {"0", "1", "2", "3", "4", "5", "6", "7", "8", "9"}

\* \s, and the characters str.strip() removes
Whitespace == {" ", "\t", "\n", "\r", "\f"}

\* the character class of the second re.sub
Punct == {"-", "EN_DASH", "EM_DASH", "_", "=", "*", "#", "{", "}", "<", ">",
          "[", "]", "\"", "'", "BACKTICK", "|"}

TimeSep == {":", "."}

----------------------------------------------------------------------------
(* Helpers on text.                                                        *)

\* the number of consecutive characters of class S in t from index i on
RECURSIVE RunLen(_, _, _)
RunLen(S, t, i) ==
    IF i > Len(t) \/ t[i] \notin S THEN 0 ELSE 1 + RunLen(S, t, i + 1)

\* t from index i to its end
From(t, i) == SubSeq(t, i, Len(t))

----------------------------------------------------------------------------
(* clean_transcript, one operator per statement.                           *)

\* the length of the match of \\an\d+\\?.*? at index i, 0 when there is none:
\* \d+ takes the whole digit run, \\? takes a backslash that follows, and
\* the lazy .*? takes nothing
TagMatch(t, i) ==
    IF /\ i + 3 <= Len(t)
       /\ t[i] = "\\" /\ t[i + 1] = "a" /\ t[i + 2] = "n"
       /\ t[i + 3] \in Digit
    THEN LET d == RunLen(Digit, t, i + 3)
             j == i + 3 + d
         IN  3 + d + (IF j <= Len(t) /\ t[j] = "\\" THEN 1 ELSE 0)
    ELSE 0

\* re.sub(r"\\an\d+\\?.*?", "", text)
RECURSIVE StripTags(_)
StripTags(t) ==
    IF t = <<>> THEN <<>>
    ELSE LET m == TagMatch(t, 1)
         IN  IF m > 0 THEN StripTags(From(t, m + 1))
             ELSE <<t[1]>> \o StripTags(Tail(t))

\* re.sub(r"[-...|]", "", text)
RemovePunct(t) == SelectSeq(t, LAMBDA c : c \notin Punct)

\* re.sub(r"\s{2,}", " ", text)
RECURSIVE CollapseSpace(_)
CollapseSpace(t) ==
    IF t = <<>> THEN <<>>
    ELSE LET n == RunLen(Whitespace, t, 1)
         IN  IF n >= 2 THEN <<" ">> \o CollapseSpace(From(t, n + 1))
             ELSE <<t[1]>> \o CollapseSpace(Tail(t))

\* re.sub(r"\n{2,}", "\n", text)
RECURSIVE CollapseNewlines(_)
CollapseNewlines(t) ==
    IF t = <<>> THEN <<>>
    ELSE LET n == RunLen({"\n"}, t, 1)
         IN  IF n >= 2 THEN <<"\n">> \o CollapseNewlines(From(t, n + 1))
             ELSE <<t[1]>> \o CollapseNewlines(Tail(t))

\* the length of the match of \d{2,}[:.]\d{2,}[:.]\d{2,} at index i, 0 when
\* there is none.  Each \d{2,} is greedy and is followed by a non-digit or
\* by the end of the match, so it takes the whole digit run there.
TimestampMatch(t, i) ==
    LET d1 == RunLen(Digit, t, i)
        s1 == i + d1
        d2 == RunLen(Digit, t, s1 + 1)
        s2 == s1 + 1 + d2
        d3 == RunLen(Digit, t, s2 + 1)
    IN  IF /\ d1 >= 2 /\ s1 <= Len(t) /\ t[s1] \in TimeSep
           /\ d2 >= 2 /\ s2 <= Len(t) /\ t[s2] \in TimeSep
           /\ d3 >= 2
        THEN d1 + 1 + d2 + 1 + d3
        ELSE 0

\* re.sub(r"\d{2,}[:.]\d{2,}[:.]\d{2,}", "", text)
RECURSIVE RemoveTimestamps(_)
RemoveTimestamps(t) ==
    IF t = <<>> THEN <<>>
    ELSE LET m == TimestampMatch(t, 1)
         IN  IF m > 0 THEN RemoveTimestamps(From(t, m + 1))
             ELSE <<t[1]>> \o RemoveTimestamps(Tail(t))

\* str.strip()
Strip(t) ==
    LET lead  == RunLen(Whitespace, t, 1)
        keep  == {i \in 1..Len(t) : t[i] \notin Whitespace}
        last  == IF keep = {} THEN 0
                 ELSE CHOOSE i \in keep : \A j \in keep : j <= i
    IN  IF keep = {} THEN <<>> ELSE SubSeq(t, lead + 1, last)

clean_transcript(text) ==
    Strip(RemoveTimestamps(CollapseNewlines(CollapseSpace(
        RemovePunct(StripTags(text))))))

----------------------------------------------------------------------------
(* JSON bodies, dict.get, truthiness and HTTP responses.                   *)

\* a JSON value of a body: null, or a string (its characters in s)
JNull == [t |-> "null", s |-> <<>>]
JStr(chars) == [t |-> "str", s |-> chars]

\* data.get(key): None when the key is absent
DictGet(has, val) == IF has THEN val ELSE JNull

\* data.get(key, default): the default only when the key is absent
DictGetDefault(has, val, default) == IF has THEN val ELSE JStr(default)

\* "not v" in Python: None and "" are falsy
Falsy(v) == v.t = "null" \/ (v.t = "str" /\ v.s = <<>>)

\* JSONResponse(status_code=code, content={key: value}); a returned dict is
\* a 200
JSONResponse(code, key, value) == [code |-> code, key |-> key, value |-> value]

NoResponse == JSONResponse(0, "", <<>>)

\* the except clause of both endpoints: 500 with str(e)
Error500(message) == JSONResponse(500, "error", message)

\* str(int), as an f-string formats response.status_code
DigitChar(d) == CASE d = 0 -> "0" [] d = 1 -> "1" [] d = 2 -> "2" [] d = 3 -> "3"
                  [] d = 4 -> "4" [] d = 5 -> "5" [] d = 6 -> "6" [] d = 7 -> "7"
                  [] d = 8 -> "8" [] d = 9 -> "9"

RECURSIVE Decimal(_)
Decimal(n) ==
    IF n < 10 THEN <<DigitChar(n)>> ELSE Decimal(n \div 10) \o <<DigitChar(n % 10)>>

\* needle in hay, for texts
Contains(hay, needle) ==
    \E i \in 1..(Len(hay) - Len(needle) + 1) :
        SubSeq(hay, i, i + Len(needle) - 1) = needle

IsPrefix(a, b) == Len(a) <= Len(b) /\ SubSeq(b, 1, Len(a)) = a

----------------------------------------------------------------------------
(* The Drive, the temp directory and the two external services.            *)

NReq == 2       \* /transcribe requests
NProcs == 2     \* worker processes serving the application

Reqs == 1..NReq
Procs == 1..NProcs

F1 == <<"f", "1">>
F2 == <<"f", "2">>
F3 == <<"f", "3">>
FileIds == {F1, F2, F3}

\* file_metadata['name'] of each Drive file: two files of one display name
\* up to the extension, and a third
DriveName(fid) ==
    CASE fid = F1 -> <<"t", ".", "m", "p", "3">>
      [] fid = F2 -> <<"t", ".", "w", "a", "v">>
      [] fid = F3 -> <<"u", ".", "m", "p", "3">>

\* the status codes of the content download
Statuses == {200, 204, 404}

\* response.text of a failed download
ErrorBody == <<"{", "}">>

\* the texts the speech-to-text service returns
SttTexts == { <<"o", "k">>, <<" ", "a", "-", "b", " ", " ", "c", "\n">> }

LastIndex(c, p) ==
    LET at == {i \in 1..Len(p) : p[i] = c}
    IN  IF at = {} THEN 0 ELSE CHOOSE i \in at : \A j \in at : j <= i

\* os.path.splitext(p)[0]: p up to its last dot, unless only dots precede it
\* in the last path component
splitext(p) ==
    LET sep == LastIndex("/", p)
        dot == LastIndex(".", p)
    IN  IF dot > sep /\ \E i \in (sep + 1)..(dot - 1) : p[i] # "."
        THEN SubSeq(p, 1, dot - 1)
        ELSE p

\* tempfile.gettempdir()
TmpDir == <<"/", "t", "m", "p">>

\* os.path.join(dir, name)
join(dir, name) ==
    IF name # <<>> /\ name[1] = "/" THEN name ELSE dir \o <<"/">> \o name

\* mp3_path of download_mp3_from_drive
mp3_path(name) == join(TmpDir, splitext(name) \o <<".", "m", "p", "3">>)

Paths == {mp3_path(DriveName(f)) : f \in FileIds}

\* no file at a path; a file records the request that wrote it and the Drive
\* file whose bytes it holds
NoFile == [writer |-> 0, fid |-> <<>>]

\* the bodies of POST /transcribe: a JSON value that is no object, or an
\* object without file_id, or with file_id null, "" or a Drive file id
TBodies ==
    {[obj |-> FALSE, has |-> FALSE, val |-> JNull],
     [obj |-> TRUE, has |-> FALSE, val |-> JNull]}
    \cup {[obj |-> TRUE, has |-> TRUE, val |-> v] :
            v \in {JNull, JStr(<<>>)} \cup {JStr(f) : f \in FileIds}}

NoLocals == [status |-> 0, path |-> <<>>, text |-> <<>>, readFrom |-> 0,
             transcript |-> <<>>]

----------------------------------------------------------------------------
(* POST /transcribe.  A worker process runs one event loop; after          *)
(* "await request.json()" the handler makes only blocking calls, so the    *)
(* loop runs it to its response before any other request of that process.  *)
(* Worker processes run in parallel and share tempfile.gettempdir().       *)

InitTranscribe ==
    /\ pc = [r \in Reqs |-> "new"]
    /\ body = [r \in Reqs |-> [obj |-> FALSE, has |-> FALSE, val |-> JNull]]
    /\ proc = [r \in Reqs |-> 0]
    /\ loop = [p \in Procs |-> 0]
    /\ local = [r \in Reqs |-> NoLocals]
    /\ log = [r \in Reqs |-> <<>>]
    /\ resp = [r \in Reqs |-> NoResponse]
    /\ fs = [p \in Paths |-> NoFile]

\* the request ends with this response, and its process's loop is free again
Respond(r, response) ==
    /\ pc' = [pc EXCEPT ![r] = "done"]
    /\ resp' = [resp EXCEPT ![r] = response]
    /\ loop' = [loop EXCEPT ![proc[r]] = 0]

\* "if not file_id"
MissingFileId_OnlyNone(b) == DictGet(b.has, b.val).t = "null"

MissingFileId(b) == Falsy(DictGet(b.has, b.val))

\* "if response.status_code != 200"
DownloadFailed_Only4xx(status) == status >= 400

DownloadFailed(status) == status # 200

\* the message of the exception download_mp3_from_drive raises
DownloadError(status, text) ==
    <<"F", "a", "i", "l", "e", "d", " ", "t", "o", " ", "d", "o", "w", "n",
      "l", "o", "a", "d", " ", "M", "P", "3", ":", " ">>
    \o Decimal(status) \o <<" ", "-", " ">> \o text

\* what transcribe_audio returns for the text the service returned
transcribe_audio_Raw(result) == result

transcribe_audio(result) == clean_transcript(result)

\* a request arrives at a worker process and awaits its body.  Requests
\* and processes are interchangeable: requests arrive in the order of their
\* numbers, at a process that already serves one or at the first idle one.
Arrive(r) ==
    /\ pc[r] = "new"
    /\ r > 1 => pc[r - 1] # "new"
    /\ \E b \in TBodies, p \in Procs :
        /\ \A q \in 1..(p - 1) : \E s \in Reqs : proc[s] = q
        /\ body' = [body EXCEPT ![r] = b]
        /\ proc' = [proc EXCEPT ![r] = p]
    /\ pc' = [pc EXCEPT ![r] = "parse"]
    /\ UNCHANGED <<loop, local, log, resp, fs, cvars, rvars>>

\* data.get("file_id") and the check of it
Validate(r) ==
    /\ pc[r] = "parse"
    /\ loop[proc[r]] = 0
    /\ IF ~body[r].obj
       THEN Respond(r, Error500(<<"no attribute 'get'">>))
       ELSE IF MissingFileId(body[r])
       THEN Respond(r, JSONResponse(400, "error", <<"Missing file_id">>))
       ELSE /\ pc' = [pc EXCEPT ![r] = "download"]
            /\ loop' = [loop EXCEPT ![proc[r]] = r]
            /\ UNCHANGED resp
    /\ UNCHANGED <<body, proc, local, log, fs, cvars, rvars>>

\* download_mp3_from_drive up to the status check: the credential, the
\* metadata lookup and the content download, each of which may raise; the
\* lookup of an id that names no Drive file always does
Download(r) ==
    /\ pc[r] = "download"
    /\ \/ /\ log' = [log EXCEPT ![r] = @ \o <<"credentials">>]
          /\ Respond(r, Error500(<<"RefreshError">>))
          /\ UNCHANGED local
       \/ /\ log' = [log EXCEPT ![r] = @ \o <<"credentials", "metadata">>]
          /\ Respond(r, Error500(<<"HttpError">>))
          /\ UNCHANGED local
       \/ /\ body[r].val.s \in FileIds
          /\ log' = [log EXCEPT ![r] = @ \o <<"credentials", "metadata", "get">>]
          /\ Respond(r, Error500(<<"ConnectionError">>))
          /\ UNCHANGED local
       \/ \E status \in Statuses :
          /\ body[r].val.s \in FileIds
          /\ log' = [log EXCEPT ![r] = @ \o <<"credentials", "metadata", "get">>]
          /\ IF DownloadFailed(status)
             THEN /\ local' = [local EXCEPT ![r].status = status]
                  /\ Respond(r, Error500(DownloadError(status, ErrorBody)))
             ELSE /\ local' = [local EXCEPT ![r].status = status,
                                 ![r].path = mp3_path(DriveName(body[r].val.s))]
                  /\ pc' = [pc EXCEPT ![r] = "write"]
                  /\ UNCHANGED <<resp, loop>>
    /\ UNCHANGED <<body, proc, fs, cvars, rvars>>

\* open(mp3_path, "wb") and f.write(response.content)
WriteFile(r) ==
    /\ pc[r] = "write"
    /\ fs' = [fs EXCEPT ![local[r].path] = [writer |-> r, fid |-> body[r].val.s]]
    /\ log' = [log EXCEPT ![r] = @ \o <<"write">>]
    /\ pc' = [pc EXCEPT ![r] = "transcribe"]
    /\ UNCHANGED <<body, proc, loop, local, resp, cvars, rvars>>

\* transcribe_audio: open(mp3_path, "rb"), the speech-to-text call and
\* clean_transcript
Transcribe(r) ==
    /\ pc[r] = "transcribe"
    /\ IF fs[local[r].path] = NoFile
       THEN /\ log' = [log EXCEPT ![r] = @ \o <<"open">>]
            /\ Respond(r, Error500(<<"FileNotFoundError">>))
            /\ UNCHANGED local
       ELSE \/ /\ log' = [log EXCEPT ![r] = @ \o <<"open", "stt">>]
               /\ Respond(r, Error500(<<"APIError">>))
               /\ UNCHANGED local
            \/ \E result \in SttTexts :
               /\ log' = [log EXCEPT ![r] = @ \o <<"open", "stt", "clean">>]
               /\ local' = [local EXCEPT
                      ![r].text = result,
                      ![r].readFrom = fs[local[r].path].writer,
                      ![r].transcript = transcribe_audio(result)]
               /\ pc' = [pc EXCEPT ![r] = "remove"]
               /\ UNCHANGED <<resp, loop>>
    /\ UNCHANGED <<body, proc, fs, cvars, rvars>>

\* os.remove(mp3_path) and the 200 response
Remove(r) ==
    /\ pc[r] = "remove"
    /\ log' = [log EXCEPT ![r] = @ \o <<"remove">>]
    /\ IF fs[local[r].path] = NoFile
       THEN /\ Respond(r, Error500(<<"FileNotFoundError">>))
            /\ UNCHANGED fs
       ELSE /\ fs' = [fs EXCEPT ![local[r].path] = NoFile]
            /\ Respond(r, JSONResponse(200, "transcript",
                                       Strip(local[r].transcript)))
    /\ UNCHANGED <<body, proc, local, cvars, rvars>>

----------------------------------------------------------------------------
(* POST /generate-report.                                                  *)

NReports == 2   \* /generate-report requests

Reports == 1..NReports

DefaultPrompt ==
    <<"E", "v", "a", "l", "u", "a", "t", "e", " ", "t", "h", "e", " ",
      "f", "o", "l", "l", "o", "w", "i", "n", "g", " ",
      "i", "n", "t", "e", "r", "v", "i", "e", "w", " ",
      "t", "r", "a", "n", "s", "c", "r", "i", "p", "t", ".">>

\* "\n\nTranscript:\n"
Separator ==
    <<"\n", "\n", "T", "r", "a", "n", "s", "c", "r", "i", "p", "t", ":", "\n">>

\* the prompts and transcripts of the bodies
Prompts == {JNull, JStr(<<>>), JStr(<<"R", "a", "t", "e">>)}
Transcripts == {JNull, JStr(<<>>), JStr(<<"G", "o", "o", "d", ".">>)}

RBodies ==
    {[obj |-> FALSE, hasPrompt |-> FALSE, prompt |-> JNull,
      hasTranscript |-> FALSE, transcript |-> JNull]}
    \cup {[obj |-> TRUE, hasPrompt |-> hp, prompt |-> p,
           hasTranscript |-> ht, transcript |-> t] :
            hp \in BOOLEAN, p \in Prompts, ht \in BOOLEAN, t \in Transcripts}

\* response.choices of a completion: the contents of its choices
Completions ==
    { << <<" ", "F", "i", "t", "\n">> >>,
      << <<"H", "i", "r", "e">>, <<"N", "o">> >> }

InitReport ==
    /\ rpc = [r \in Reports |-> "new"]
    /\ rbody = [r \in Reports |->
                  [obj |-> FALSE, hasPrompt |-> FALSE, prompt |-> JNull,
                   hasTranscript |-> FALSE, transcript |-> JNull]]
    /\ llm = [r \in Reports |-> <<>>]
    /\ rresp = [r \in Reports |-> NoResponse]

\* data.get("prompt", "Evaluate the following interview transcript.")
PromptOf(b) == DictGetDefault(b.hasPrompt, b.prompt, DefaultPrompt)

\* data.get("transcript")
TranscriptOf(b) == DictGet(b.hasTranscript, b.transcript)

\* "if not transcript"
MissingTranscript_OnlyNone(b) == TranscriptOf(b).t = "null"

MissingTranscript(b) == Falsy(TranscriptOf(b))

RespondReport(r, response) ==
    /\ rpc' = [rpc EXCEPT ![r] = "done"]
    /\ rresp' = [rresp EXCEPT ![r] = response]

ArriveReport(r) ==
    /\ rpc[r] = "new"
    /\ r > 1 => rpc[r - 1] # "new"
    /\ \E b \in RBodies : rbody' = [rbody EXCEPT ![r] = b]
    /\ rpc' = [rpc EXCEPT ![r] = "parse"]
    /\ UNCHANGED <<llm, rresp, cvars, tvars>>

\* the two data.get calls and the check of the transcript
ValidateReport(r) ==
    /\ rpc[r] = "parse"
    /\ IF ~rbody[r].obj
       THEN RespondReport(r, Error500(<<"no attribute 'get'">>))
       ELSE IF MissingTranscript(rbody[r])
       THEN RespondReport(r, JSONResponse(400, "error", <<"Missing transcript">>))
       ELSE rpc' = [rpc EXCEPT ![r] = "generate"] /\ UNCHANGED rresp
    /\ UNCHANGED <<rbody, llm, cvars, tvars>>

\* generate_llm_report and the 200 response: str + str, the chat completion
\* and choices[0].message.content.strip()
GenerateReport(r) ==
    /\ rpc[r] = "generate"
    /\ LET prompt == PromptOf(rbody[r])
           transcript == TranscriptOf(rbody[r])
       IN  IF prompt.t # "str" \/ transcript.t # "str"
           THEN /\ RespondReport(r, Error500(<<"TypeError">>))
                /\ UNCHANGED llm
           ELSE /\ llm' = [llm EXCEPT
                      ![r] = Append(@, prompt.s \o Separator \o transcript.s)]
                /\ \/ RespondReport(r, Error500(<<"APIError">>))
                   \/ \E choices \in Completions :
                        RespondReport(r, JSONResponse(200, "report",
                                                      Strip(choices[1])))
    /\ UNCHANGED <<rbody, cvars, tvars>>

----------------------------------------------------------------------------
(* The sanitizer on its own: every text of at most MaxTokens tokens.       *)

MaxTokens == 5

Tokens == {
    <<"a">>, <<" ">>, <<"\n">>, <<"-">>, <<"7">>,
    <<"0", "0", ":", "0", "1", ":", "2", "3">>,
    <<"\\", "a", "n", "8", "\\">> }

RECURSIVE Flatten(_)
Flatten(ts) == IF ts = <<>> THEN <<>> ELSE Head(ts) \o Flatten(Tail(ts))

Texts == {Flatten(ts) : ts \in UNION {[1..n -> Tokens] : n \in 0..MaxTokens}}

InitSanitizer ==
    /\ raw = <<>>
    /\ once = <<>>
    /\ twice = <<>>
    /\ cstage = "input"

SanitizeOnce ==
    /\ cstage = "input"
    /\ once' = clean_transcript(raw)
    /\ cstage' = "once"
    /\ UNCHANGED <<raw, twice, tvars, rvars>>

SanitizeTwice ==
    /\ cstage = "once"
    /\ twice' = clean_transcript(once)
    /\ cstage' = "twice"
    /\ UNCHANGED <<raw, once, tvars, rvars>>

----------------------------------------------------------------------------
(* The specifications.  The two endpoints and the sanitizer share no       *)
(* state, so each is explored with the other two at rest.                  *)

Init == InitTranscribe /\ InitReport /\ InitSanitizer

Next ==
    \E r \in Reqs :
        \/ Arrive(r)
        \/ Validate(r)
        \/ Download(r)
        \/ WriteFile(r)
        \/ Transcribe(r)
        \/ Remove(r)

Spec == Init /\ [][Next]_vars

NextReport ==
    \E r \in Reports :
        \/ ArriveReport(r)
        \/ ValidateReport(r)
        \/ GenerateReport(r)

SpecReport == Init /\ [][NextReport]_vars

InitClean ==
    /\ InitTranscribe
    /\ InitReport
    /\ raw \in Texts
    /\ once = <<>>
    /\ twice = <<>>
    /\ cstage = "input"

NextClean == SanitizeOnce \/ SanitizeTwice

SpecClean == InitClean /\ [][NextClean]_vars

----------------------------------------------------------------------------
(* The claims.                                                             *)

Logged(r, call) == \E i \in 1..Len(log[r]) : log[r][i] = call

\* the calls of a /transcribe request that succeeds, in order
FullOrder ==
    <<"credentials", "metadata", "get", "write", "open", "stt", "clean",
      "remove">>

\* C1: once a /transcribe request that wrote its temporary file has
\* responded (200 or 500), the file it wrote no longer exists.
C1_TempFileDeleted ==
    \A r \in Reqs :
        (pc[r] = "done" /\ Logged(r, "write"))
            => fs[local[r].path].writer # r

\* C2: from the moment a /transcribe request has written its temporary
\* file until it deletes it, the file at its path is the one it wrote (no
\* other request has overwritten or deleted it), and the file a request
\* hands to the speech-to-text service is the one it wrote itself.
C2_ExclusiveOwnership ==
    \A r \in Reqs :
        /\ pc[r] \in {"transcribe", "remove"} => fs[local[r].path].writer = r
        /\ local[r].readFrom \in {0, r}

\* C3: a content download that returns a status other than 200 ends the
\* request with HTTP 500 and an error text containing the status code; the
\* request writes no temporary file and never calls speech-to-text.
C3_DownloadFailureIs500 ==
    \A r \in Reqs :
        local[r].status \notin {0, 200} =>
            /\ pc[r] = "done"
            /\ resp[r].code = 500
            /\ resp[r].key = "error"
            /\ Contains(resp[r].value, Decimal(local[r].status))
            /\ ~Logged(r, "write") /\ ~Logged(r, "open") /\ ~Logged(r, "stt")
            /\ \A p \in Paths : fs[p].writer # r

C3_Witness ==
    \E r \in Reqs : local[r].status = 404 /\ pc[r] = "done"

\* C4: a /transcribe request whose JSON object has no file_id, or a null or
\* empty one, is answered 400 {"error": "Missing file_id"}; it acquires no
\* credential, makes no Drive or speech-to-text call, creates no file.
C4_MissingFileIdIs400 ==
    \A r \in Reqs :
        (/\ pc[r] # "new"
         /\ body[r].obj
         /\ ~body[r].has \/ body[r].val \in {JNull, JStr(<<>>)})
        => /\ pc[r] \in {"parse", "done"}
           /\ pc[r] = "done" =>
                resp[r] = JSONResponse(400, "error", <<"Missing file_id">>)
           /\ log[r] = <<>>
           /\ local[r] = NoLocals
           /\ \A p \in Paths : fs[p].writer # r

C4_Witness ==
    /\ \E r \in Reqs :
        pc[r] = "done" /\ body[r].obj /\ body[r].has /\ body[r].val = JStr(<<>>)
    /\ \E r \in Reqs : pc[r] = "done" /\ body[r].obj /\ ~body[r].has

\* C5: a /generate-report request whose JSON object has no transcript, or a
\* null or empty one, is answered 400 {"error": "Missing transcript"}
\* whatever its prompt, and the language model is never called for it.
C5_MissingTranscriptIs400 ==
    \A r \in Reports :
        (/\ rpc[r] # "new"
         /\ rbody[r].obj
         /\ ~rbody[r].hasTranscript
                \/ rbody[r].transcript \in {JNull, JStr(<<>>)})
        => /\ rpc[r] \in {"parse", "done"}
           /\ rpc[r] = "done" =>
                rresp[r] = JSONResponse(400, "error", <<"Missing transcript">>)
           /\ llm[r] = <<>>

C5_Witness ==
    \E r \in Reports :
        /\ rpc[r] = "done"
        /\ rbody[r].obj /\ rbody[r].hasTranscript
        /\ rbody[r].transcript = JStr(<<>>)
        /\ rbody[r].hasPrompt /\ rbody[r].prompt.t = "str"
        /\ rbody[r].prompt.s # <<>>

\* C6: a /generate-report request with a non-empty transcript T calls the
\* language model exactly once, with the user message
\* P + "\n\nTranscript:\n" + T, where P is the prompt supplied or, when
\* none is supplied, the default instruction; it is answered 200 with a
\* report or, when the model call fails, 500.
C6_ReportCallsModelOnce ==
    \A r \in Reports :
        (/\ rpc[r] = "done"
         /\ rbody[r].obj
         /\ rbody[r].hasTranscript
         /\ rbody[r].transcript.t = "str"
         /\ rbody[r].transcript.s # <<>>)
        => LET P == IF rbody[r].hasPrompt /\ rbody[r].prompt.t = "str"
                    THEN rbody[r].prompt.s
                    ELSE DefaultPrompt
           IN  /\ llm[r] = << P \o Separator \o rbody[r].transcript.s >>
               /\ rresp[r].code \in {200, 500}
               /\ rresp[r].code = 200 => rresp[r].key = "report"

\* C7: clean_transcript is idempotent: cleaning a cleaned text changes
\* nothing.
C7_Idempotent == cstage = "twice" => twice = once

\* C8: the output of clean_transcript has no two consecutive spaces.
C8_NoDoubleSpace ==
    cstage # "input" =>
        \A i \in 1..(Len(once) - 1) : ~(once[i] = " " /\ once[i + 1] = " ")

\* C9: in a text of letters and newlines only, clean_transcript replaces
\* every run of two or more newlines inside the text by exactly one newline
\* (and does nothing else but trim the ends).
C9_NewlineRunsCollapse ==
    (cstage # "input" /\ \A i \in 1..Len(raw) : raw[i] \in {"a", "\n"})
        => once = Strip(CollapseNewlines(raw))

\* C10: a /transcribe request makes its calls in the order credential,
\* metadata, download, file write, file open, speech-to-text, sanitizer,
\* file deletion, each at most once; a 200 response comes only after all
\* of them, with the transcript clean_transcript of the text the service
\* returned; a request that stopped earlier (or whose deletion failed) is
\* answered 500.
C10_TranscribeOrder ==
    \A r \in Reqs :
        /\ IsPrefix(log[r], FullOrder)
        /\ (pc[r] = "done") <=> (resp[r] # NoResponse)
        /\ resp[r].code = 200 =>
            /\ log[r] = FullOrder
            /\ local[r].status = 200
            /\ resp[r].key = "transcript"
            /\ resp[r].value = clean_transcript(local[r].text)
            /\ resp[r].value = local[r].transcript
        /\ (pc[r] = "done" /\ log[r] # <<>> /\ resp[r].code # 200) =>
            resp[r].code = 500
        /\ (pc[r] # "done" /\ log[r] # <<>>) =>
            pc[r] = (CASE Len(log[r]) = 3 -> "write"
                       [] Len(log[r]) = 4 -> "transcribe"
                       [] Len(log[r]) = 7 -> "remove"
                       [] OTHER -> "none")

C10_Witness ==
    \E r \in Reqs :
        /\ resp[r].code = 200
        /\ resp[r].value # local[r].text
        /\ resp[r].value # <<>>

====
